---- MODULE Spec2Model ----
(***************************************************************************)
(* Model of formatchecker/core.py of haiku-format-bot:                     *)
(*   - get_class_lines_in_file : the class-region detector (lexical scan)  *)
(*   - _change_to_review_input : the comment mapper                        *)
(*   - reformat_change         : the orchestrator and its terminal modes   *)
(*                                                                         *)
(* A line of text is a sequence of lexical tokens.  The tokens are the     *)
(* pieces the code looks at: the keywords "class " and "struct " (with     *)
(* their trailing blank), the braces, the semicolon, the line terminator,  *)
(* a blank, and "x" for any run of other characters.                       *)
(***************************************************************************)
EXTENDS Integers, Sequences, FiniteSets, TLC

VARIABLES
    cpc, contents, lineno, scan,          \* get_class_lines_in_file
    pc, submit, files, idx, calls, error, \* reformat_change
    review_input, written, published      \* result of the mapper, terminal effects

vars == <<cpc, contents, lineno, scan, pc, submit, files, idx, calls, error,
          review_input, written, published>>

classVars == <<cpc, contents, lineno, scan>>
runVars == <<pc, submit, files, idx, calls, error, review_input, written, published>>

None == <<>>

(***************************************************************************)
(* Bounds                                                                  *)
(***************************************************************************)
MaxLines == 3

(***************************************************************************)
(* Text                                                                    *)
(***************************************************************************)
Keywords == {"class ", "struct "}

\* "struct Foo {", "int x;", "};" : the example of the detector's contract
LStructOpen == <<"struct ", "x", "{">>
LMember == <<"x", ";">>
LClose == <<"}", ";">>
\* "struct Foo;" : a forward declaration, bare and with its line terminator
LForward == <<"struct ", "x", ";">>
LForwardNl == <<"class ", "x", ";", "\n">>
\* "class Foo {};" and "class Foo {}" : one-line definitions
LOneLineDef == <<"class ", "x", "{", "}", ";">>
LOneLineNoSemi == <<"class ", "x", "{", "}">>
\* "class Foo" with the brace on the next line, and the lone braces
LClassHead == <<"class ", "x">>
LOpenBrace == <<"{">>
LCloseBrace == <<"}">>
\* "  struct Bar {" : an indented (nested) definition
LNested == <<" ", "struct ", "x", "{">>
\* "void f() {" and a line with its terminator "x = 1;\n"
LFuncOpen == <<"x", "{">>
LStmtNl == <<"x", ";", "\n">>
\* "struct Foo }" and "}; }" : more closing than opening braces
LStructClose == <<"struct ", "x", "}">>
LCloseTwice == <<"}", ";", "}">>

Lines ==
    { LStructOpen, LMember, LClose, LForward, LForwardNl, LOneLineDef,
      LOneLineNoSemi, LClassHead, LOpenBrace, LCloseBrace, LNested,
      LFuncOpen, LStmtNl, LStructClose, LCloseTwice, <<>> }

SeqsUpTo(S, n) == UNION { [1..k -> S] : k \in 0..n }

\* line.count(ch)
Count(line, ch) == Cardinality({ i \in 1..Len(line) : line[i] = ch })

\* Positions at which "$" matches in `line`: the end of the string, and just
\* before a newline that is the last character.
DollarAt(line, e) ==
    \/ e = Len(line)
    \/ e = Len(line) - 1 /\ line[Len(line)] = "\n"

\* "." matches any character but the newline.
DotRun(line, from, to) == \A i \in from..to : line[i] # "\n"

\* a bug: declarations are not told apart from definitions
ClassDeclarationPatternNever(line) == FALSE

\* _CLASS_DECLARATION_PATTERN.match(line) : '^(?:class|struct) .*;$'
ClassDeclarationPattern(line) ==
    /\ Len(line) >= 2
    /\ line[1] \in Keywords
    /\ \E e \in 2..Len(line) :
          /\ line[e] = ";"
          /\ DotRun(line, 2, e - 1)
          /\ DollarAt(line, e)

\* _CLASS_DEFINITION_START_PATTERN.match(line) : '^(?:class|struct) .*$'
ClassDefinitionStartPattern(line) ==
    /\ Len(line) >= 1
    /\ line[1] \in Keywords
    /\ \E e \in 1..Len(line) : DotRun(line, 2, e) /\ DollarAt(line, e)

(***************************************************************************)
(* get_class_lines_in_file                                                 *)
(***************************************************************************)
ScanStart == [in_class |-> FALSE, level |-> 0, skip_lines |-> <<>>]

\* a bug: the closing line of the region is flagged too
ClassScanStepFlagClosing(st, n, line) ==
    IF ~st.in_class
    THEN IF ClassDeclarationPattern(line) THEN st
         ELSE IF ClassDefinitionStartPattern(line)
              THEN [st EXCEPT !.in_class = TRUE,
                              !.level = st.level + Count(line, "{") - Count(line, "}")]
              ELSE st
    ELSE LET lvl == st.level + Count(line, "{") - Count(line, "}")
         IN  [in_class |-> lvl # 0, level |-> lvl,
              skip_lines |-> Append(st.skip_lines, n)]

\* One iteration of the loop over enumerate(contents, start=1).
ClassScanStep(st, n, line) ==
    IF ~st.in_class
    THEN IF ClassDeclarationPattern(line) THEN st
         ELSE IF ClassDefinitionStartPattern(line)
              THEN [st EXCEPT !.in_class = TRUE,
                              !.level = st.level + Count(line, "{") - Count(line, "}")]
              ELSE st
    ELSE LET lvl == st.level + Count(line, "{") - Count(line, "}")
         IN  IF lvl = 0
             THEN [st EXCEPT !.in_class = FALSE, !.level = lvl]
             ELSE [st EXCEPT !.level = lvl,
                             !.skip_lines = Append(st.skip_lines, n)]

RECURSIVE ClassScan(_, _)
ClassScan(text, n) ==
    IF n = 0 THEN ScanStart
    ELSE ClassScanStep(ClassScan(text, n - 1), n, text[n])

\* The function as a whole, as _change_to_review_input calls it.
GetClassLinesInFile(text) ==
    IF Len(text) = 0 THEN <<>> ELSE ClassScan(text, Len(text)).skip_lines

SeqToSet(s) == { s[i] : i \in 1..Len(s) }

\* --- the scan as a state machine ---
ClassInit ==
    /\ cpc = "entry"
    /\ contents \in SeqsUpTo(Lines, MaxLines)
    /\ lineno = 0
    /\ scan = ScanStart
    /\ pc = "idle"
    /\ submit = FALSE
    /\ files = <<>>
    /\ idx = 1
    /\ calls = <<>>
    /\ error = None
    /\ review_input = None
    /\ written = None
    /\ published = None

\* if len(contents) == 0: return []
ReturnEmpty ==
    /\ cpc = "entry"
    /\ Len(contents) = 0
    /\ cpc' = "done"
    /\ UNCHANGED <<contents, lineno, scan, runVars>>

\* skip_lines = []; in_class = False; level = 0
EnterLoop ==
    /\ cpc = "entry"
    /\ Len(contents) # 0
    /\ cpc' = "loop"
    /\ scan' = ScanStart
    /\ UNCHANGED <<contents, lineno, runVars>>

\* one iteration of the for loop
ScanLine ==
    /\ cpc = "loop"
    /\ lineno < Len(contents)
    /\ lineno' = lineno + 1
    /\ scan' = ClassScanStep(scan, lineno + 1, contents[lineno + 1])
    /\ UNCHANGED <<cpc, contents, runVars>>

\* return skip_lines
ReturnSkipLines ==
    /\ cpc = "loop"
    /\ lineno = Len(contents)
    /\ cpc' = "done"
    /\ UNCHANGED <<contents, lineno, scan, runVars>>


(***************************************************************************)
(* Optional values: None, or Some(v)                                       *)
(***************************************************************************)
Some(v) == <<v>>
Val(o) == o[1]

(***************************************************************************)
(* File names and EXTENSION_PATTERN                                        *)
(***************************************************************************)
NameFooCPP == <<"F", "o", "o", ".", "C", "P", "P">>
NameAH == <<"a", ".", "h">>
NameReadme == <<"R", "E", "A", "D", "M", "E", ".", "m", "d">>
NameCpp == <<"c", "p", "p">>

Filenames == { NameFooCPP, NameAH, NameReadme, NameCpp }

\* re.IGNORECASE: letters compare by their lower-case form
Lower(c) ==
    CASE c = "A" -> "a" [] c = "C" -> "c" [] c = "D" -> "d" [] c = "E" -> "e"
      [] c = "F" -> "f" [] c = "M" -> "m" [] c = "P" -> "p" [] c = "R" -> "r"
      [] OTHER -> c

LowerSeq(s) == [i \in 1..Len(s) |-> Lower(s[i])]

\* the alternatives of the group (?:cpp|cc|...|s?vh?)
Extensions ==
    { <<"c", "p", "p">>,
      <<"c", "c">>,
      <<"c", "+", "+">>,
      <<"c", "x", "x">>,
      <<"c", "p", "p", "m">>,
      <<"c", "c", "m">>,
      <<"c", "x", "x", "m">>,
      <<"c", "+", "+", "m">>,
      <<"c">>,
      <<"c", "l">>,
      <<"h">>,
      <<"h", "h">>,
      <<"h", "p", "p">>,
      <<"h", "x", "x">>,
      <<"m">>,
      <<"m", "m">>,
      <<"i", "n", "c">>,
      <<"j", "s">>,
      <<"t", "s">>,
      <<"p", "r", "o", "t", "o">>,
      <<"p", "r", "o", "t", "o", "d", "e", "v", "e", "l">>,
      <<"j", "a", "v", "a">>,
      <<"c", "s">>,
      <<"j", "s", "o", "n">>,
      <<"v">>,
      <<"v", "h">>,
      <<"s", "v">>,
      <<"s", "v", "h">> }

\* a bug: the flag re.IGNORECASE is missing
ExtensionPatternCaseSensitive(name) ==
    \E p \in 1..Len(name) :
        /\ name[p] = "."
        /\ SubSeq(name, p + 1, Len(name)) \in Extensions

\* re.match(EXTENSION_PATTERN, filename, re.IGNORECASE) : '^.*\.(?:...)$'
ExtensionPattern(name) ==
    \E p \in 1..Len(name) :
        /\ name[p] = "."
        /\ LowerSeq(SubSeq(name, p + 1, Len(name))) \in Extensions


(***************************************************************************)
(* Data model (formatchecker/models.py, as the core uses it)               *)
(***************************************************************************)
MaxFiles == 2
MaxSegs == 2

\* LineRange: start, end (1-based, inclusive), end >= start
LineRanges(n) == { [start |-> a, end |-> b] : a \in 1..n, b \in 1..n } \ 
                 { r \in [start : 1..n, end : 1..n] : r.end < r.start }

ReformatTypes == {"INSERTION", "MODIFICATION", "DELETION"}

\* ReformatSegment: the replacement text is empty for a DELETION
ReformatSegment(start, end, reformat_type) ==
    [start |-> start, end |-> end, reformat_type |-> reformat_type,
     formatted_content |-> IF reformat_type = "DELETION" THEN <<>> ELSE <<LMember>>]

ReformatSegments(n) ==
    { ReformatSegment(r.start, r.end, t) : r \in LineRanges(n), t \in ReformatTypes }

\* the last line a segment occupies in patch_contents
LastLine(seg) ==
    IF seg.reformat_type = "INSERTION" THEN seg.start ELSE seg.end

\* lists in ascending line order, non-overlapping
AscendingRanges(ranges) ==
    \A i \in 1..(Len(ranges) - 1) : ranges[i + 1].start > ranges[i].end

AscendingSegments(segs) ==
    \A i \in 1..(Len(segs) - 1) : segs[i + 1].start > LastLine(segs[i])

PatchSegmentLists(n) ==
    { l \in SeqsUpTo(LineRanges(n), MaxSegs) : AscendingRanges(l) }

FormatSegmentLists(n, k) ==
    { l \in SeqsUpTo(ReformatSegments(n), k) : AscendingSegments(l) }

\* LineRange.format_range(): the range in the form the formatter takes
FormatRange(r) == <<"--lines", r.start, r.end>>

\* the texts of the files of a change
TextStruct == <<LStructOpen, LMember, LClose>>
TextPlain == <<LFuncOpen, LMember, LCloseBrace>>
PatchTexts == { TextStruct, TextPlain }
\* a text of six lines without a class
TextLong == <<LFuncOpen, LMember, LMember, LMember, LMember, LCloseBrace>>

(***************************************************************************)
(* _change_to_review_input                                                 *)
(***************************************************************************)
MsgNoChanges == "Experimental haiku-format bot: no formatting changes suggested for this commit."
MsgSomeChanges == "Experimental haiku-format bot: some formatting changes suggested."
MsgRemove == "Suggestion from haiku-format is to remove this line/these lines."
MsgSuggest == "Suggestion from haiku-format (operation): content"

CommentRange(start_line, start_character, end_line, end_character) ==
    [start_line |-> start_line, start_character |-> start_character,
     end_line |-> end_line, end_character |-> end_character]

\* end = segment.end; match segment.reformat_type: case INSERTION: end = segment.start
SegmentEnd(segment) ==
    IF segment.reformat_type = "INSERTION" THEN segment.start ELSE segment.end

\* case INSERTION: "insert after"; case MODIFICATION: "change"
SegmentOperation(segment) ==
    CASE segment.reformat_type = "INSERTION" -> "insert after"
      [] segment.reformat_type = "MODIFICATION" -> "change"
      [] OTHER -> "unbound"

\* set(range(segment.start, end + 1, 1))
SegmentLinesSet(segment) == segment.start..SegmentEnd(segment)

\* a bug: the documented "end += 1" is applied
SegmentCommentRangeEndPlusOne(segment) ==
    CommentRange(segment.start, 0, SegmentEnd(segment) + 1, 0)

\* comment_range = CommentRange(segment.start, 0, end, 0)
SegmentCommentRange(segment) ==
    CommentRange(segment.start, 0, SegmentEnd(segment), 0)

\* the CommentInput of a segment that is not suppressed
SegmentComment(segment) ==
    [message |->
        IF segment.reformat_type = "DELETION"
        THEN [text |-> MsgRemove, operation |-> "", content |-> <<>>]
        ELSE [text |-> MsgSuggest, operation |-> SegmentOperation(segment),
              content |-> segment.formatted_content],
     range |-> SegmentCommentRange(segment)]

\* a bug: the overlap test is dropped
SegmentSuppressedNever(skip_lines_set, segment) == FALSE

\* len(skip_lines_set & segment_lines_set) > 0
SegmentSuppressed(skip_lines_set, segment) ==
    Cardinality(skip_lines_set \cap SegmentLinesSet(segment)) > 0

\* a bug: the key is created before the segments are looked at
SetDefaultExtendEager(comments, filename, new) ==
    [k \in DOMAIN comments \cup {filename} |->
        (IF k \in DOMAIN comments THEN comments[k] ELSE <<>>)
        \o (IF k = filename THEN new ELSE <<>>)]

\* comments.setdefault(filename, []).extend(new), for the comments of one file
SetDefaultExtend(comments, filename, new) ==
    IF new = <<>> THEN comments
    ELSE [k \in DOMAIN comments \cup {filename} |->
            (IF k \in DOMAIN comments THEN comments[k] ELSE <<>>)
            \o (IF k = filename THEN new ELSE <<>>)]

\* the inner loop: for segment in f.format_segments
RECURSIVE SegmentComments(_, _)
SegmentComments(skip_lines_set, segments) ==
    IF segments = <<>> THEN <<>>
    ELSE IF SegmentSuppressed(skip_lines_set, Head(segments))
         THEN SegmentComments(skip_lines_set, Tail(segments))
         ELSE <<SegmentComment(Head(segments))>>
              \o SegmentComments(skip_lines_set, Tail(segments))

\* the outer loop: for f in change.files, after n files
RECURSIVE CollectComments(_, _)
CollectComments(fs, n) ==
    IF n = 0 THEN <<>>
    ELSE LET comments == CollectComments(fs, n - 1)
             f == fs[n]
         IN  IF f.formatted_contents = None \/ Len(f.format_segments) = 0
             THEN comments
             ELSE SetDefaultExtend(comments, f.filename,
                    SegmentComments(SeqToSet(GetClassLinesInFile(Val(f.patch_contents))),
                                    f.format_segments))

\* a bug: the vote is always positive
ReviewLabelsAlwaysPlus(comments) == ("Haiku-Format" :> 1)

\* labels = {"Haiku-Format": +1} if len(comments) == 0 else {"Haiku-Format": -1}
ReviewLabels(comments) ==
    IF Cardinality(DOMAIN comments) = 0
    THEN ("Haiku-Format" :> 1) ELSE ("Haiku-Format" :> -1)

ReviewMessage(comments) ==
    IF Cardinality(DOMAIN comments) = 0 THEN MsgNoChanges ELSE MsgSomeChanges

ChangeToReviewInput(fs) ==
    LET comments == CollectComments(fs, Len(fs))
    IN  [message |-> ReviewMessage(comments), comments |-> comments,
         labels |-> ReviewLabels(comments), notify |-> "OWNER"]

\* strip_empty_values_from_input_dict: fields with empty/null values are removed
StripEmptyValues(ri) ==
    IF DOMAIN ri.comments = {}
    THEN [message |-> ri.message, labels |-> ri.labels, notify |-> ri.notify]
    ELSE ri


(***************************************************************************)
(* The changes a run is given                                              *)
(***************************************************************************)
FileChange(filename, base, patch, patch_segments, formatted, format_segments) ==
    [filename |-> filename, base_contents |-> base, patch_contents |-> patch,
     patch_segments |-> patch_segments, formatted_contents |-> formatted,
     format_segments |-> format_segments]

\* file names are the keys of the server's file map: no name occurs twice
NameLists(names) ==
    { l \in SeqsUpTo(names, MaxFiles) :
        \A i \in 1..Len(l) : \A j \in 1..Len(l) : i # j => l[i] # l[j] }

\* a file as the review server delivers it: deleted, newly added or modified
FetchedKinds ==
    { [kind |-> "deleted", patch_segments |-> <<>>] }
    \cup { [kind |-> "added", patch_segments |-> ps] :
             ps \in { <<>>, <<[start |-> 1, end |-> Len(TextStruct)]>> } }
    \cup { [kind |-> "modified", patch_segments |-> ps] :
             ps \in PatchSegmentLists(Len(TextStruct) - 1) }

FetchedFile(name, k) ==
    FileChange(name,
               IF k.kind = "added" THEN None ELSE Some(TextPlain),
               IF k.kind = "deleted" THEN None ELSE Some(TextStruct),
               k.patch_segments, None, <<>>)

\* what run_clang_format and the segment reduction can leave on a file:
\* no changes (null), or a formatted text with its reformat segments
FormatResults(segment_lists) ==
    { [formatted |-> None, segments |-> <<>>] } \cup
    { [formatted |-> Some(TextPlain), segments |-> l] : l \in segment_lists }

\* the reformat segments a run of reformat_change meets: none, kept ones,
\* suppressed ones (on line 2 of TextStruct) and both
RunSegmentLists ==
    { <<>>,
      <<ReformatSegment(1, 1, "MODIFICATION")>>,
      <<ReformatSegment(2, 2, "MODIFICATION")>>,
      <<ReformatSegment(1, 2, "INSERTION")>>,
      <<ReformatSegment(2, 3, "DELETION")>>,
      <<ReformatSegment(1, 1, "MODIFICATION"), ReformatSegment(2, 2, "DELETION")>> }

\* the files as the mapper can find them after the loop of reformat_change
FormattedKinds ==
    { [text |-> t, result |-> r] :
        t \in PatchTexts,
        r \in FormatResults(FormatSegmentLists(Len(TextStruct), MaxSegs)) }
    \cup
    { [text |-> TextLong, result |-> r] :
        r \in FormatResults(FormatSegmentLists(Len(TextLong), 1)) }

FormattedFile(name, k) ==
    FileChange(name, Some(TextPlain), Some(k.text), <<[start |-> 1, end |-> 1]>>,
               k.result.formatted, k.result.segments)

\* only files with a supported name reach the formatter
SupportedFilenames == { n \in Filenames : ExtensionPattern(n) }

(***************************************************************************)
(* reformat_change                                                         *)
(***************************************************************************)
ClassIdle ==
    /\ cpc = "idle"
    /\ contents = <<>>
    /\ lineno = 0
    /\ scan = ScanStart

RunInit ==
    /\ ClassIdle
    /\ pc = "start"
    /\ submit \in BOOLEAN
    /\ \E names \in NameLists(Filenames) :
          \E kinds \in [1..Len(names) -> FetchedKinds] :
              files = [i \in 1..Len(names) |-> FetchedFile(names[i], kinds[i])]
    /\ idx = 1
    /\ calls = <<>>
    /\ error = None
    /\ review_input = None
    /\ written = None
    /\ published = None

\* context.get_change_and_revision_from_number / context.get_change raises
LookupFails ==
    /\ pc = "start"
    /\ error' = Some("lookup")
    /\ pc' = "failed"
    /\ UNCHANGED <<submit, files, idx, calls, review_input, written, published, classVars>>

\* change = context.get_change(change_id, revision_id)
GetChange ==
    /\ pc = "start"
    /\ pc' = "files"
    /\ UNCHANGED <<submit, files, idx, calls, review_input, written, published, error, classVars>>

InLoop == pc = "files" /\ idx <= Len(files)

Supported(f) == ExtensionPattern(f.filename)

\* if not re.match(EXTENSION_PATTERN, f.filename, re.IGNORECASE): continue
IgnoreFile ==
    /\ InLoop
    /\ ~Supported(files[idx])
    /\ idx' = idx + 1
    /\ UNCHANGED <<pc, submit, files, calls, review_input, written, published, error, classVars>>

\* if f.patch_contents is None: continue
SkipDeleted ==
    /\ InLoop
    /\ Supported(files[idx])
    /\ files[idx].patch_contents = None
    /\ idx' = idx + 1
    /\ UNCHANGED <<pc, submit, files, calls, review_input, written, published, error, classVars>>

\* if f.base_contents is not None and len(f.patch_segments) == 0: continue
SkipDeletionOnly ==
    /\ InLoop
    /\ Supported(files[idx])
    /\ files[idx].patch_contents # None
    /\ files[idx].base_contents # None
    /\ Len(files[idx].patch_segments) = 0
    /\ idx' = idx + 1
    /\ UNCHANGED <<pc, submit, files, calls, review_input, written, published, error, classVars>>

\* a bug: the last patch segment is left out
TargetRangesDropLast(f) ==
    IF f.base_contents # None
    THEN [i \in 1..(Len(f.patch_segments) - 1) |-> FormatRange(f.patch_segments[i])]
    ELSE <<>>

\* segments = [s.format_range() for s in f.patch_segments], or [] for a new file
TargetRanges(f) ==
    IF f.base_contents # None
    THEN [i \in 1..Len(f.patch_segments) |-> FormatRange(f.patch_segments[i])]
    ELSE <<>>

\* the file reaches the call of run_clang_format
ToFormat(f) ==
    /\ Supported(f)
    /\ f.patch_contents # None
    /\ (f.base_contents # None => Len(f.patch_segments) # 0)

FormatterCall(i, f) ==
    [file |-> i, contents |-> Val(f.patch_contents), segments |-> TargetRanges(f)]

\* f.formatted_contents = run_clang_format(f.patch_contents, segments)
FormatFile ==
    /\ InLoop
    /\ ToFormat(files[idx])
    /\ calls' = Append(calls, FormatterCall(idx, files[idx]))
    /\ \E r \in FormatResults(RunSegmentLists) :
          files' = [files EXCEPT ![idx].formatted_contents = r.formatted,
                                 ![idx].format_segments = r.segments]
    /\ idx' = idx + 1
    /\ UNCHANGED <<pc, submit, review_input, written, published, error, classVars>>

\* a bug: the failure is caught and the loop goes on with the next file
FormatFailsCaught ==
    /\ InLoop
    /\ ToFormat(files[idx])
    /\ calls' = Append(calls, FormatterCall(idx, files[idx]))
    /\ error' = Some("formatter")
    /\ idx' = idx + 1
    /\ UNCHANGED <<pc, submit, files, review_input, written, published, classVars>>

\* run_clang_format raises: nothing catches it
FormatFails ==
    /\ InLoop
    /\ ToFormat(files[idx])
    /\ calls' = Append(calls, FormatterCall(idx, files[idx]))
    /\ error' = Some("formatter")
    /\ pc' = "failed"
    /\ UNCHANGED <<submit, files, idx, review_input, written, published, classVars>>

\* review_input = _change_to_review_input(change, logger)
BuildReview ==
    /\ pc = "files"
    /\ idx > Len(files)
    /\ review_input' = Some(ChangeToReviewInput(files))
    /\ pc' = "terminal"
    /\ UNCHANGED <<submit, files, idx, calls, error, written, published, classVars>>

\* if submit: context.publish_review(change_id, review_input, revision_id)
PublishReview ==
    /\ pc = "terminal"
    /\ submit
    /\ published' = review_input
    /\ pc' = "done"
    /\ UNCHANGED <<submit, files, idx, calls, error, review_input, written, classVars>>

\* a bug: the payload is written as it is
WrittenOutputUnstripped(ri) == ri

\* output = strip_empty_values_from_input_dict(review_input)
WrittenOutput(ri) == StripEmptyValues(ri)

\* else: write json.dumps(output) to review.json
WriteReviewJson ==
    /\ pc = "terminal"
    /\ ~submit
    /\ written' = Some(WrittenOutput(Val(review_input)))
    /\ pc' = "done"
    /\ UNCHANGED <<submit, files, idx, calls, error, review_input, published, classVars>>

(***************************************************************************)
(* Specifications                                                          *)
(***************************************************************************)
\* a whole run of reformat_change
Init == RunInit

Next ==
    \/ LookupFails
    \/ GetChange
    \/ IgnoreFile
    \/ SkipDeleted
    \/ SkipDeletionOnly
    \/ FormatFile
    \/ FormatFails
    \/ BuildReview
    \/ PublishReview
    \/ WriteReviewJson

Spec == Init /\ [][Next]_vars

\* _change_to_review_input applied to the changes the loop can hand it
ReviewInit ==
    /\ ClassIdle
    /\ pc = "files"
    /\ submit \in BOOLEAN
    /\ \E names \in NameLists(SupportedFilenames) :
          \E kinds \in [1..Len(names) -> FormattedKinds] :
              files = [i \in 1..Len(names) |-> FormattedFile(names[i], kinds[i])]
    /\ idx = Len(files) + 1
    /\ calls = <<>>
    /\ error = None
    /\ review_input = None
    /\ written = None
    /\ published = None

ReviewNext ==
    \/ BuildReview
    \/ PublishReview
    \/ WriteReviewJson

SpecReview == ReviewInit /\ [][ReviewNext]_vars

\* get_class_lines_in_file applied to the texts up to MaxLines lines
ClassNext ==
    \/ ReturnEmpty
    \/ EnterLoop
    \/ ScanLine
    \/ ReturnSkipLines

SpecClass == ClassInit /\ [][ClassNext]_vars


(***************************************************************************)
(* Properties of get_class_lines_in_file (SpecClass)                       *)
(***************************************************************************)
\* the text of a line without its terminator
LineBody(line) ==
    IF Len(line) > 0 /\ line[Len(line)] = "\n"
    THEN SubSeq(line, 1, Len(line) - 1) ELSE line

StartsWithKeyword(line) == Len(line) > 0 /\ line[1] \in Keywords

EndsWithSemicolon(line) ==
    Len(LineBody(line)) > 0 /\ LineBody(line)[Len(LineBody(line))] = ";"

\* a line that opens a class region when met outside a class
OpensClass(line) == StartsWithKeyword(line) /\ ~EndsWithSemicolon(line)

\* a forward declaration or one-line definition
DeclaresClass(line) == StartsWithKeyword(line) /\ EndsWithSemicolon(line)

\* occurrences of "{" minus occurrences of "}" on the lines from..to
RECURSIVE BraceLevel(_, _, _)
BraceLevel(text, from, to) ==
    IF to < from THEN 0
    ELSE BraceLevel(text, from, to - 1)
         + Cardinality({ i \in 1..Len(text[to]) : text[to][i] = "{" })
         - Cardinality({ i \in 1..Len(text[to]) : text[to][i] = "}" })

\* line c is the first line after the opening line o with level zero
ClosesRegion(text, o, c) ==
    /\ BraceLevel(text, o, c) = 0
    /\ \A k \in (o + 1)..(c - 1) : BraceLevel(text, o, k) # 0

\* the scan is outside a class when it meets line i
RECURSIVE OutsideClass(_, _)
OutsideClass(text, i) ==
    \/ i = 1
    \/ i > 1 /\ OutsideClass(text, i - 1) /\ ~OpensClass(text[i - 1])
    \/ \E o \in 1..(i - 2) :
          /\ OutsideClass(text, o)
          /\ OpensClass(text[o])
          /\ ClosesRegion(text, o, i - 1)

SkipSet == SeqToSet(scan.skip_lines)

\* C5: for every line o scanned so far that opens a class region (met outside a
\* class, starts with "class " or "struct ", does not end in ";"), o is not in the
\* skip set, and every later scanned line j up to and including the first one
\* with running brace level zero is in the skip set exactly when the level
\* counted from o through j is non-zero; ["struct Foo {", "int x;", "};"]
\* yields {2}.
C5_ClassBodyLines ==
    /\ \A o \in 1..lineno :
          OutsideClass(contents, o) /\ OpensClass(contents[o]) =>
             /\ o \notin SkipSet
             /\ \A j \in (o + 1)..lineno :
                   (\A k \in (o + 1)..(j - 1) : BraceLevel(contents, o, k) # 0) =>
                      (j \in SkipSet <=> BraceLevel(contents, o, j) # 0)
    /\ (cpc = "done" /\ contents = TextStruct => SkipSet = {2})

C5_Witness ==
    /\ cpc = "done"
    /\ contents = TextStruct
    /\ scan.skip_lines = <<2>>

\* C6: a step of the scan taken outside a class never adds a line to the skip
\* set, and on a declaration line ("class "/"struct " ... ";") it leaves in_class
\* and level unchanged; a finished scan of a text whose only class/struct lines
\* are declarations (the empty text and ["struct Foo;"] included) returns the
\* empty skip set.
C6_DeclarationsNotFlagged ==
    /\ [][ (cpc = "loop" /\ lineno' = lineno + 1 /\ ~scan.in_class) =>
              /\ scan'.skip_lines = scan.skip_lines
              /\ (DeclaresClass(contents[lineno']) =>
                    scan'.in_class = scan.in_class /\ scan'.level = scan.level) ]_vars
    /\ [] ( (/\ cpc = "done"
             /\ \A i \in 1..Len(contents) : ~OpensClass(contents[i]))
            => scan.skip_lines = <<>> )

C6_Witness ==
    /\ cpc = "done"
    /\ Len(contents) = MaxLines
    /\ contents[1] = LForward
    /\ contents[2] = LOneLineDef
    /\ \A i \in 1..Len(contents) : ~OpensClass(contents[i])
    /\ scan.skip_lines = <<>>

(***************************************************************************)
(* Properties of _change_to_review_input (SpecReview, Spec)                *)
(***************************************************************************)
ReviewBuilt == review_input # None

Comments == Val(review_input).comments

CommentsOf(filename) ==
    IF filename \in DOMAIN Comments THEN Comments[filename] ELSE <<>>

\* the lines {start, ..., effective_end} of a segment
EffectiveEnd(seg) == IF seg.reformat_type = "INSERTION" THEN seg.start ELSE seg.end
SegmentLines(seg) == { l \in seg.start..EffectiveEnd(seg) : TRUE }

\* the class-skip set of a file
ClassSkipSet(f) == SeqToSet(GetClassLinesInFile(Val(f.patch_contents)))

Overlaps(f, seg) == SegmentLines(seg) \cap ClassSkipSet(f) # {}

\* the segments the mapper looks at
SegmentsOf(f) == IF f.formatted_contents = None THEN <<>> ELSE f.format_segments

\* the segment has a comment: segments of one file start at different lines
HasComment(f, seg) ==
    \E k \in 1..Len(CommentsOf(f.filename)) :
        CommentsOf(f.filename)[k].range.start_line = seg.start

Modification(a, b) ==
    [start |-> a, end |-> b, reformat_type |-> "MODIFICATION",
     formatted_content |-> <<LMember>>]

\* C1: once the review is built, a segment of a file with formatted content has
\* a comment if and only if {start..effective_end} has no line in common with
\* the class-skip set of the file's patch_contents; in ["struct Foo {",
\* "int x;", "};"] a MODIFICATION of 2-2 has none, a segment on line 1 has one.
C1_SuppressionRule ==
    ReviewBuilt =>
        \A i \in 1..Len(files) :
            \A s \in 1..Len(SegmentsOf(files[i])) :
                LET f == files[i]
                    seg == SegmentsOf(f)[s]
                IN  /\ HasComment(f, seg) <=> ~Overlaps(f, seg)
                    /\ (Val(f.patch_contents) = TextStruct /\ seg = Modification(2, 2)
                          => ~HasComment(f, seg))
                    /\ (Val(f.patch_contents) = TextStruct /\ SegmentLines(seg) = {1}
                          => HasComment(f, seg))

C1_Witness ==
    /\ ReviewBuilt
    /\ \E i \in 1..Len(files) :
          /\ Val(files[i].patch_contents) = TextStruct
          /\ files[i].format_segments = <<Modification(1, 1), Modification(2, 2)>>
          /\ Len(CommentsOf(files[i].filename)) = 1

\* C4: every comment of the review has the range (start, 0, effective_end, 0) of
\* a segment of its file that does not overlap the skip set, the end line
\* without +1; an INSERTION at line 5 gives (5, 0, 5, 0), a MODIFICATION of 3-6
\* gives (3, 0, 6, 0).
C4_CommentRange ==
    ReviewBuilt =>
        \A i \in 1..Len(files) :
            LET f == files[i]
            IN  /\ \A k \in 1..Len(CommentsOf(f.filename)) :
                      \E s \in 1..Len(SegmentsOf(f)) :
                          LET seg == SegmentsOf(f)[s]
                          IN  /\ ~Overlaps(f, seg)
                              /\ CommentsOf(f.filename)[k].range =
                                    [start_line |-> seg.start, start_character |-> 0,
                                     end_line |-> EffectiveEnd(seg), end_character |-> 0]
                /\ \A s \in 1..Len(SegmentsOf(f)) :
                      LET seg == SegmentsOf(f)[s]
                          HasRange(a, b) ==
                              \E k \in 1..Len(CommentsOf(f.filename)) :
                                  CommentsOf(f.filename)[k].range =
                                     [start_line |-> a, start_character |-> 0,
                                      end_line |-> b, end_character |-> 0]
                      IN  /\ (seg.reformat_type = "INSERTION" /\ seg.start = 5
                                /\ ~Overlaps(f, seg) => HasRange(5, 5))
                          /\ (seg = Modification(3, 6) /\ ~Overlaps(f, seg)
                                => HasRange(3, 6))

C4_Witness ==
    /\ ReviewBuilt
    /\ \E i \in 1..Len(files) : \E j \in 1..Len(files) :
          /\ files[i].format_segments =
                <<[start |-> 5, end |-> 6, reformat_type |-> "INSERTION",
                   formatted_content |-> <<LMember>>]>>
          /\ CommentsOf(files[i].filename)[1].range.end_line = 5
          /\ files[j].format_segments = <<Modification(3, 6)>>
          /\ CommentsOf(files[j].filename)[1].range.end_line = 6

\* the segments of a file that do not overlap its class-skip set, in order
RECURSIVE Surviving(_, _)
Surviving(f, segs) ==
    IF segs = <<>> THEN <<>>
    ELSE (IF Overlaps(f, Head(segs)) THEN <<>> ELSE <<Head(segs)>>)
         \o Surviving(f, Tail(segs))

\* C10: the list under a filename has exactly one comment per surviving segment
\* of that file, in the order of format_segments; a filename is a key only if
\* one of its segments survived, so no key maps to an empty list and files
\* without formatted content or without segments have no key.
C10_CommentsPerFile ==
    ReviewBuilt =>
        /\ DOMAIN Comments \subseteq { files[i].filename : i \in 1..Len(files) }
        /\ \A k \in DOMAIN Comments : Comments[k] # <<>>
        /\ \A i \in 1..Len(files) :
              LET f == files[i]
                  surv == Surviving(f, SegmentsOf(f))
                  list == CommentsOf(f.filename)
              IN  /\ (f.filename \in DOMAIN Comments <=> surv # <<>>)
                  /\ Len(list) = Len(surv)
                  /\ \A k \in 1..Len(surv) :
                        /\ list[k].range.start_line = surv[k].start
                        /\ list[k].range.end_line = EffectiveEnd(surv[k])
                        /\ list[k].message.content = surv[k].formatted_content
                        /\ (list[k].message.text = MsgRemove
                              <=> surv[k].reformat_type = "DELETION")

C10_Witness ==
    /\ ReviewBuilt
    /\ Len(files) = 2
    /\ Len(files[1].format_segments) = 2
    /\ Len(CommentsOf(files[1].filename)) = 1
    /\ Len(files[2].format_segments) = 2
    /\ Len(CommentsOf(files[2].filename)) = 2
    /\ CommentsOf(files[2].filename)[1].range.start_line
          < CommentsOf(files[2].filename)[2].range.start_line

\* a comment is produced somewhere in the change
CommentProduced ==
    \E i \in 1..Len(files) :
        \E s \in 1..Len(SegmentsOf(files[i])) :
            ~Overlaps(files[i], SegmentsOf(files[i])[s])

\* C2: the review carries Haiku-Format = +1 and the "no formatting changes"
\* message exactly when no comment was produced in any file, Haiku-Format = -1
\* and the explanatory message exactly when one was; notify is OWNER.
C2_VoteAndMessage ==
    ReviewBuilt =>
        LET ri == Val(review_input)
        IN  /\ ri.notify = "OWNER"
            /\ DOMAIN ri.labels = {"Haiku-Format"}
            /\ ri.labels["Haiku-Format"] \in {1, -1}
            /\ (ri.labels["Haiku-Format"] = 1 <=> ~CommentProduced)
            /\ (ri.message = MsgNoChanges <=> ~CommentProduced)
            /\ (ri.labels["Haiku-Format"] = -1 <=> CommentProduced)
            /\ (ri.message = MsgSomeChanges <=> CommentProduced)

\* every segment of the change was suppressed: the vote is +1
C2_Witness ==
    /\ ReviewBuilt
    /\ Len(files) = 2
    /\ files[1].format_segments = <<Modification(2, 2)>>
    /\ files[2].formatted_contents # None
    /\ files[2].format_segments = <<>>
    /\ Val(review_input).labels["Haiku-Format"] = 1


(***************************************************************************)
(* Properties of reformat_change (Spec)                                    *)
(***************************************************************************)
\* the file names of the model with a supported extension, letter case aside
SupportedNames == { NameFooCPP, NameAH }

\* the file must not reach the formatter
Excluded(f) ==
    \/ f.filename \notin SupportedNames
    \/ f.patch_contents = None
    \/ f.base_contents # None /\ f.patch_segments = <<>>

CallsFor(i) == { k \in 1..Len(calls) : calls[k].file = i }

LoopFinished == pc \in {"terminal", "done"}

\* C3: the formatter is never invoked and formatted_contents is never set for
\* a file whose name has no supported extension (Foo.CPP has one), whose
\* patch_contents is absent, or which has base_contents and no patch_segments;
\* when the loop has finished without a failure, every other file was given to
\* the formatter exactly once, with its own patch_contents.
C3_FormatterInvocations ==
    \A i \in 1..Len(files) :
        LET f == files[i]
        IN  /\ Cardinality(CallsFor(i)) <= 1
            /\ (Excluded(f) =>
                  /\ CallsFor(i) = {}
                  /\ f.formatted_contents = None
                  /\ f.format_segments = <<>>)
            /\ (LoopFinished /\ ~Excluded(f) =>
                  /\ Cardinality(CallsFor(i)) = 1
                  /\ \A k \in CallsFor(i) : calls[k].contents = Val(f.patch_contents))

C3_Witness ==
    /\ pc = "done"
    /\ Len(files) = 2
    /\ files[1].filename = NameFooCPP
    /\ ~Excluded(files[1])
    /\ CallsFor(1) = {1}
    /\ files[2].filename = NameAH
    /\ files[2].base_contents # None
    /\ files[2].patch_segments = <<>>
    /\ CallsFor(2) = {}

\* C7: the target ranges of every formatter invocation are empty for a newly
\* added file; for a modified file they are one entry per patch segment, in the
\* order of patch_segments, and not empty.
C7_TargetRanges ==
    \A k \in 1..Len(calls) :
        LET f == files[calls[k].file]
            ranges == calls[k].segments
        IN  /\ (f.base_contents = None => ranges = <<>>)
            /\ (f.base_contents # None =>
                  /\ Len(ranges) = Len(f.patch_segments)
                  /\ Len(ranges) > 0
                  /\ \A j \in 1..Len(ranges) :
                        /\ ranges[j][2] = f.patch_segments[j].start
                        /\ ranges[j][3] = f.patch_segments[j].end)

C7_Witness ==
    /\ Len(calls) = 2
    /\ files[calls[1].file].base_contents = None
    /\ files[calls[1].file].patch_segments # <<>>
    /\ calls[1].segments = <<>>
    /\ files[calls[2].file].base_contents # None
    /\ Len(calls[2].segments) = 2

NoPayload == review_input = None /\ written = None /\ published = None

\* C8: once the lookup or a formatter invocation has failed the run has ended:
\* no review payload is built, nothing is written or published, the file at
\* which the formatter failed is the last one looked at, and no further step is
\* taken; a payload is built, written or published only after the loop has
\* passed every file without a failure.
C8_FailurePropagates ==
    /\ [] ( error # None =>
              /\ pc = "failed"
              /\ NoPayload
              /\ (error = Some("lookup") => calls = <<>> /\ idx = 1)
              /\ (error = Some("formatter") =>
                    /\ Len(calls) > 0
                    /\ calls[Len(calls)].file = idx
                    /\ files[idx].formatted_contents = None) )
    /\ [] ( ~NoPayload => error = None /\ idx > Len(files) )
    /\ [][error = None /\ pc # "failed"]_vars

C8_Witness ==
    /\ error = Some("formatter")
    /\ pc = "failed"
    /\ Len(files) = 2
    /\ idx = 1
    /\ ToFormat(files[2])
    /\ Len(calls) = 1
    /\ NoPayload

\* a field of the payload is empty
EmptyField(ri, k) == k = "comments" /\ DOMAIN ri.comments = {}

\* the payload without its empty fields
IsStripped(out, ri) ==
    /\ DOMAIN out = { k \in DOMAIN ri : ~EmptyField(ri, k) }
    /\ \A k \in DOMAIN out : out[k] = ri[k]

\* C9 as stated: in both terminal modes the payload that leaves the core is the
\* stripped one (written to review.json in dry-run, handed to publish_review in
\* submit mode).
C9_StrippedInBothModes ==
    /\ (written # None => IsStripped(Val(written), Val(review_input)))
    /\ (published # None => IsStripped(Val(published), Val(review_input)))

\* C9 amended: in dry-run mode the payload written to review.json is the
\* stripped one; in submit mode publish_review is handed the review input as
\* _change_to_review_input built it, empty fields included, and nothing is
\* written.
C9_StrippedInDryRunOnly ==
    /\ (written # None =>
          /\ ~submit
          /\ published = None
          /\ IsStripped(Val(written), Val(review_input)))
    /\ (published # None =>
          /\ submit
          /\ written = None
          /\ published = review_input)

C9_Witness ==
    /\ pc = "done"
    /\ written # None
    /\ Val(review_input).comments = <<>>
    /\ "comments" \notin DOMAIN Val(written)
    /\ Len(files) > 0

====
